---------------------------- MODULE Spec2Model ----------------------------
(***************************************************************************)
(* Model of the Valley Fever dashboard's data pipeline                     *)
(* (python_valley_fever_dashboard/data_processing.py) and of the processes *)
(* that run it (app.py, run_app.py, generate_static.py).                   *)
(*                                                                         *)
(* Strings are sequences of one-character strings, numbers are integers,   *)
(* and a numeric cell of a table is a record [na, v]: na = TRUE is pandas' *)
(* NaN.  Rates and predictions are fixed-point numbers with one digit      *)
(* after the point (v = 10 stands for 1.0).                                *)
(***************************************************************************)
EXTENDS Integers, Sequences, FiniteSets, TLC

VARIABLES
    pc,                  \* position in load_and_process_data
    disk,                \* the two primary input files
    final_county_data,   \* County Record table (column oriented)
    vf_cases_raw,        \* rows of the case-count file
    vf_cases,            \* working copy of the rows
    vf_cases_clean,      \* rows that survive the validity filter
    vf_annual_data,      \* Annual Case Records
    vf_statewide_annual, \* Statewide Annual Records
    fallback,            \* which path of create_model_predictions ran
    name,                \* normalisation: the county string being cleaned
    stage,               \* normalisation: the last string operation applied
    first,               \* normalisation: result of the first pass
    pass,                \* normalisation: 1 or 2
    entry,               \* process: the command that started it
    files,               \* process: names of the input files that exist
    runs,                \* process: calls of load_and_process_data so far
    loaded,              \* process: the caller has received the three tables
    server,              \* process: app.run has been called
    written,             \* process: files and directories created or written
    raised,              \* process: the exception that ended it, if any
    exit,                \* process: "running" or the exit status
    view                 \* process: what the last callback or export built

pipeVars == <<pc, disk, final_county_data, vf_cases_raw, vf_cases, vf_cases_clean,
              vf_annual_data, vf_statewide_annual, fallback>>
normVars == <<name, stage, first, pass>>
procVars == <<entry, files, runs, loaded, server, written, raised, exit, view>>
vars == <<pc, disk, final_county_data, vf_cases_raw, vf_cases, vf_cases_clean,
          vf_annual_data, vf_statewide_annual, fallback,
          name, stage, first, pass,
          entry, files, runs, loaded, server, written, raised, exit, view>>

---------------------------------------------------------------------------
(* Bounds of the model *)

MaxRows == 3          \* rows in the case-count file
MaxCounties == 6      \* rows in the County Record table
MaxTokens == 4        \* tokens a raw county string is built from

---------------------------------------------------------------------------
(* Characters and strings *)

Lower == <<"a", "b", "c", "d", "e", "f", "g", "h", "i", "j", "k", "l", "m",
           "n", "o", "p", "q", "r", "s", "t", "u", "v", "w", "x", "y", "z">>
Caps == <<"A", "B", "C", "D", "E", "F", "G", "H", "I", "J", "K", "L", "M",
           "N", "O", "P", "Q", "R", "S", "T", "U", "V", "W", "X", "Y", "Z">>
Digits == <<"0", "1", "2", "3", "4", "5", "6", "7", "8", "9">>
Whitespace == {" ", "\t"}

ALAMEDA == <<"A", "L", "A", "M", "E", "D", "A">>
LOS_ANGELES == <<"L", "O", "S", " ", "A", "N", "G", "E", "L", "E", "S">>
BERKELEY == <<"B", "E", "R", "K", "E", "L", "E", "Y">>
LONG_BEACH == <<"L", "O", "N", "G", " ", "B", "E", "A", "C", "H">>
PASADENA == <<"P", "A", "S", "A", "D", "E", "N", "A">>
KERN == <<"K", "E", "R", "N">>
FRESNO == <<"F", "R", "E", "S", "N", "O">>
TOTAL == <<"T", "O", "T", "A", "L">>
STAR == <<"*">>
COUNTY_SUFFIX == <<" ", "C", "O", "U", "N", "T", "Y">>

\* str.upper() on one character
UpperChar(c) ==
    IF \E i \in 1..Len(Lower) : Lower[i] = c
    THEN Caps[CHOOSE i \in 1..Len(Lower) : Lower[i] = c]
    ELSE c

\* Series.str.upper()
StrUpper(s) == [i \in 1..Len(s) |-> UpperChar(s[i])]

\* does pat occur in s at position i
MatchAt(s, pat, i) ==
    /\ i + Len(pat) - 1 <= Len(s)
    /\ \A j \in 1..Len(pat) : s[i + j - 1] = pat[j]

\* Series.str.replace(pat, ''): every non-overlapping occurrence, left to
\* right, in one pass
RECURSIVE StrRemove(_, _)
StrRemove(s, pat) ==
    IF Len(s) = 0 THEN s
    ELSE IF MatchAt(s, pat, 1)
         THEN StrRemove(SubSeq(s, Len(pat) + 1, Len(s)), pat)
         ELSE <<s[1]>> \o StrRemove(Tail(s), pat)

\* Series.str.strip()
RECURSIVE LStrip(_)
LStrip(s) == IF Len(s) > 0 /\ s[1] \in Whitespace THEN LStrip(Tail(s)) ELSE s
RECURSIVE RStrip(_)
RStrip(s) ==
    IF Len(s) > 0 /\ s[Len(s)] \in Whitespace
    THEN RStrip(SubSeq(s, 1, Len(s) - 1))
    ELSE s
StrStrip(s) == RStrip(LStrip(s))

\* Series.str.contains(pat) for a literal pat
StrContains(s, pat) == \E i \in 1..Len(s) : MatchAt(s, pat, i)

\* county_mappings and Series.replace(county_mappings): whole-value lookup
county_mappings ==
    { <<BERKELEY, ALAMEDA>>, <<LONG_BEACH, LOS_ANGELES>>, <<PASADENA, LOS_ANGELES>> }
MappingKeys == { m[1] : m \in county_mappings }
ReplaceMappingsNone(s) == s
ReplaceMappings(s) ==
    IF s \in MappingKeys
    THEN (CHOOSE m \in county_mappings : m[1] = s)[2]
    ELSE s

\* line 31 followed by line 39: the canonical county name of a raw string
CleanCounty(s) == StrStrip(StrRemove(StrUpper(s), COUNTY_SUFFIX))
CanonicalCounty(s) == ReplaceMappings(CleanCounty(s))

---------------------------------------------------------------------------
(* Numeric cells *)

NaN == [na |-> TRUE, v |-> 0]
Num(n) == [na |-> FALSE, v |-> n]
\* fixed-point: one digit after the point
Fixed(n) == n * 10
FixedMul(a, b) == (a * b) \div 10

IsDigit(c) == \E i \in 1..Len(Digits) : Digits[i] = c
DigitVal(c) == (CHOOSE i \in 1..Len(Digits) : Digits[i] = c) - 1

RECURSIVE DecimalValue(_)
DecimalValue(s) ==
    IF Len(s) = 0 THEN 0
    ELSE DecimalValue(SubSeq(s, 1, Len(s) - 1)) * 10 + DigitVal(s[Len(s)])

\* pd.to_numeric(errors='coerce') on a string of digits with an optional sign;
\* every other string is coerced to NaN
ToNumeric(s) ==
    LET signed == Len(s) > 0 /\ s[1] \in {"-", "+"}
        body == IF signed THEN Tail(s) ELSE s
    IN  IF Len(body) > 0 /\ \A i \in 1..Len(body) : IsDigit(body[i])
        THEN Num(IF signed /\ s[1] = "-" THEN 0 - DecimalValue(body) ELSE DecimalValue(body))
        ELSE NaN

\* line 42: strip the footnote marker, then parse
ParseCasesKeepStar(raw) == ToNumeric(raw)
ParseCases(raw) == ToNumeric(StrRemove(raw, STAR))

---------------------------------------------------------------------------
(* Summation *)

RECURSIVE SumSeq(_)
SumSeq(s) == IF Len(s) = 0 THEN 0 ELSE s[1] + SumSeq(Tail(s))

RECURSIVE SumAnnual(_)
SumAnnual(S) ==
    IF S = {} THEN 0
    ELSE LET r == CHOOSE x \in S : TRUE
         IN  r.annual_cases + SumAnnual(S \ {r})

---------------------------------------------------------------------------
(* The steps of load_and_process_data as functions of tables *)

\* line 31
NormalizeRows(rows) ==
    [i \in 1..Len(rows) |->
        [county |-> CleanCounty(rows[i].county), year |-> rows[i].year,
         cases_raw |-> rows[i].cases_raw]]

\* line 39
MapRows(rows) ==
    [i \in 1..Len(rows) |->
        [county |-> ReplaceMappings(rows[i].county), year |-> rows[i].year,
         cases_raw |-> rows[i].cases_raw]]

\* line 42
ConvertRows(rows) ==
    [i \in 1..Len(rows) |->
        [county |-> rows[i].county, year |-> rows[i].year,
         cases_raw |-> rows[i].cases_raw, cases |-> ParseCases(rows[i].cases_raw)]]

\* lines 45-48: cases.notna() & ~county.str.contains('TOTAL|\\*')
ValidRowKeepNaN(r) == ~(StrContains(r.county, TOTAL) \/ StrContains(r.county, STAR))
ValidRowKeepTotal(r) == ~r.cases.na
ValidRow(r) ==
    /\ ~r.cases.na
    /\ ~(StrContains(r.county, TOTAL) \/ StrContains(r.county, STAR))
FilterRows(rows) == SelectSeq(rows, ValidRow)

\* lines 51-52: groupby(['county', 'year'])['cases'].sum().reset_index()
GroupSumFirst(rows, county, year) ==
    LET members == { i \in 1..Len(rows) : rows[i].county = county /\ rows[i].year = year }
    IN  rows[CHOOSE i \in members : \A j \in members : i <= j].cases.v
GroupSum(rows, county, year) ==
    SumSeq([i \in 1..Len(rows) |->
              IF rows[i].county = county /\ rows[i].year = year /\ ~rows[i].cases.na
              THEN rows[i].cases.v ELSE 0])
GroupByCountyYearDense(rows) ==
    { [county |-> rows[i].county, year |-> rows[j].year,
       annual_cases |-> GroupSum(rows, rows[i].county, rows[j].year)] :
      i \in 1..Len(rows), j \in 1..Len(rows) }
GroupByCountyYear(rows) ==
    { [county |-> rows[i].county, year |-> rows[i].year,
       annual_cases |-> GroupSum(rows, rows[i].county, rows[i].year)] :
      i \in 1..Len(rows) }

\* lines 55-56: isin(final_county_data['county'].unique())
available_counties(df) == { df.county[i] : i \in 1..Len(df.county) }
FilterAvailableNone(annual, df) == annual
FilterAvailable(annual, df) ==
    { r \in annual : r.county \in available_counties(df) }

\* lines 59-60: groupby('year')['annual_cases'].sum().reset_index()
GroupByYear(annual) ==
    { [year |-> y,
       total_statewide_cases |-> SumAnnual({ r \in annual : r.year = y })] :
      y \in { r.year : r \in annual } }

\* lines 30-56 and 59-60 composed
AnnualOf(rows, df) ==
    FilterAvailable(GroupByCountyYear(FilterRows(ConvertRows(MapRows(NormalizeRows(rows))))), df)

---------------------------------------------------------------------------
(* create_model_predictions *)

feature_cols == {"rpl_themes", "avg_pm25", "avg_temp", "avg_ppt"}
MinFeatures == 2
MinRows == 5
UniformLow == 8       \* 0.8
UniformHigh == 12     \* 1.2
Multipliers == {UniformLow, UniformHigh}

Columns(df) == DOMAIN df.num
NRows(df) == Len(df.county)
available_features(df) == { c \in feature_cols : c \in Columns(df) }

\* line 92: ~(X.isna().any(axis=1) | y.isna())
maskFeaturesOnly(df) ==
    { i \in 1..NRows(df) : \A c \in available_features(df) : ~df.num[c][i].na }
mask(df) ==
    { i \in 1..NRows(df) :
        /\ \A c \in available_features(df) : ~df.num[c][i].na
        /\ ~df.num["vf_rate"][i].na }

\* df['gam_predictions'] = values
SetPredictionsImputed(df, values) ==
    [county |-> df.county,
     num |-> [c \in Columns(df) \cup {"gam_predictions"} |->
                IF c = "gam_predictions" THEN values
                ELSE [i \in 1..NRows(df) |->
                        IF df.num[c][i].na THEN Num(Fixed(1)) ELSE df.num[c][i]]]]
SetPredictions(df, values) ==
    [county |-> df.county,
     num |-> [c \in Columns(df) \cup {"gam_predictions"} |->
                IF c = "gam_predictions" THEN values ELSE df.num[c]]]

\* lines 84 and 98: df['vf_rate'] * np.random.uniform(0.8, 1.2, len(df))
PlaceholderValuesAdded(df, m) ==
    [i \in 1..NRows(df) |->
        IF df.num["vf_rate"][i].na THEN NaN
        ELSE Num(df.num["vf_rate"][i].v + m[i])]
PlaceholderValues(df, m) ==
    [i \in 1..NRows(df) |->
        IF df.num["vf_rate"][i].na THEN NaN
        ELSE Num(FixedMul(df.num["vf_rate"][i].v, m[i]))]

\* lines 101-111: a forest's prediction is a mean of training targets, so it
\* lies between the least and the greatest target of the complete rows
TargetsOf(df) == { df.num["vf_rate"][i].v : i \in mask(df) }
ForestRange(df) ==
    { t \in TargetsOf(df) :
        (\A u \in TargetsOf(df) : t <= u) \/ (\A u \in TargetsOf(df) : t >= u) }

\* line 63
NeedsPredictionsAlways(df) == TRUE
NeedsPredictions(df) ==
    IF "gam_predictions" \notin Columns(df) THEN TRUE
    ELSE \A i \in 1..NRows(df) : df.num["gam_predictions"][i].na


---------------------------------------------------------------------------
(* Input files *)

Raw_Berkeley == <<"B", "e", "r", "k", "e", "l", "e", "y">>
Raw_KernCounty == <<"K", "e", "r", "n", " ", "C", "o", "u", "n", "t", "y">>
Raw_CaliforniaTotal == <<"C", "a", "l", "i", "f", "o", "r", "n", "i", "a", " ", "T", "o", "t", "a", "l">>
Raw_Pasadena == <<"P", "a", "s", "a", "d", "e", "n", "a">>
Raw_KernStar == <<"K", "E", "R", "N", "*">>
CALIFORNIA_TOTAL == <<"C", "A", "L", "I", "F", "O", "R", "N", "I", "A", " ", "T", "O", "T", "A", "L">>

Row(c, y, x) == [county |-> c, year |-> y, cases_raw |-> x]

\* rows of valley_fever_cases_by_lhd_2001-2023.csv
CaseRows ==
    { Row(Raw_Berkeley, 2020, <<"1", "5", "0">>),
      Row(ALAMEDA, 2020, <<"5", "0">>),
      Row(Raw_KernCounty, 2020, <<"1", "2", "0", "*">>),
      Row(KERN, 2020, <<"N", "/", "A">>),
      Row(Raw_CaliforniaTotal, 2020, <<"9", "9", "9">>),
      Row(FRESNO, 2020, <<"5">>),
      Row(Raw_Pasadena, 2021, <<"-", "2">>),
      Row(Raw_KernStar, 2021, <<"9">>) }
CaseFiles == UNION { [1..n -> CaseRows] : n \in 0..MaxRows }
SmallCaseFile == << Row(Raw_Berkeley, 2020, <<"1", "5", "0">>), Row(ALAMEDA, 2020, <<"5", "0">>) >>

\* final_county_data files
Table(counties, numeric) == [county |-> counties, num |-> numeric]
EmptyTable == Table(<<>>, [c \in {} |-> <<>>])

TableWithPredictions ==
    Table(<<ALAMEDA, KERN, LOS_ANGELES>>,
          [c \in {"vf_rate", "gam_predictions"} |->
              IF c = "vf_rate" THEN <<Num(Fixed(1)), Num(Fixed(2)), NaN>>
              ELSE <<Num(Fixed(2)), NaN, Num(Fixed(1))>>])
TableWithEmptyPredictions ==
    Table(<<KERN, CALIFORNIA_TOTAL, BERKELEY, FRESNO, Raw_KernStar>>,
          [c \in {"vf_rate", "gam_predictions"} |->
              IF c = "vf_rate" THEN <<Num(Fixed(3)), NaN, NaN, NaN, NaN>>
              ELSE <<NaN, NaN, NaN, NaN, NaN>>])
SmallTables == {TableWithPredictions, TableWithEmptyPredictions}

CountyPool == <<ALAMEDA, KERN, LOS_ANGELES, FRESNO>>
ColumnSets ==
    { {"rpl_themes"}, {"rpl_themes", "avg_pm25"},
      {"rpl_themes", "avg_pm25", "avg_temp", "avg_ppt"} }
GamStates == {"absent", "some"}

\* a table of n rows: the first noRate rows lack vf_rate, the next
\* noCovariate rows lack rpl_themes, the others are complete
BuildTable(n, noRate, noCovariate, cols, gam) ==
    Table([i \in 1..n |-> CountyPool[((i - 1) % Len(CountyPool)) + 1]],
          [c \in {"vf_rate"} \cup cols
                 \cup (IF gam = "absent" THEN {} ELSE {"gam_predictions"}) |->
              [i \in 1..n |->
                  CASE c = "vf_rate" ->
                         IF i <= noRate THEN NaN ELSE Num(Fixed(i))
                    [] c = "gam_predictions" ->
                         IF gam = "some" /\ i = 1 THEN Num(Fixed(1)) ELSE NaN
                    [] OTHER ->
                         IF i > noRate /\ i <= noRate + noCovariate /\ c = "rpl_themes"
                         THEN NaN ELSE Num(Fixed(1))]])
LargeTables ==
    { BuildTable(q[1], q[2], q[3], cols, gam) :
        q \in { x \in (0..MaxCounties) \X (0..MaxCounties) \X (0..MaxCounties) :
                  x[2] + x[3] <= x[1] },
        cols \in ColumnSets, gam \in GamStates }

Disks ==
    [county : SmallTables, cases : CaseFiles]
        \cup [county : LargeTables, cases : {SmallCaseFile}]

\* raw county strings for the normalisation on its own
Tokens == { <<"a">>, <<" ", "C", "o", "u">>, <<" ", "C", "o", "u", "n", "t", "y">>, <<"n", "t", "y">>, <<" ">>, <<"\t">>, <<"B", "e", "r", "k", "e", "l", "e", "y">> }
RECURSIVE Concat(_)
Concat(ts) == IF Len(ts) = 0 THEN <<>> ELSE ts[1] \o Concat(Tail(ts))
RawNames == { Concat(ts) : ts \in UNION { [1..n -> Tokens] : n \in 0..MaxTokens } }

---------------------------------------------------------------------------
(* load_and_process_data, statement by statement *)

\* what a callback or an export has built from the tables
View(kind, counties, rows, annual, statewide) ==
    [kind |-> kind, counties |-> counties, rows |-> rows,
     annual |-> annual, statewide |-> statewide]
NoView == View("none", <<>>, <<>>, {}, {})

\* no process is followed: the function is run by itself
ProcIdle ==
    /\ entry = "none"
    /\ files = {}
    /\ runs = 0
    /\ loaded = FALSE
    /\ server = FALSE
    /\ written = {}
    /\ raised = "none"
    /\ exit = "running"
    /\ view = NoView

Init ==
    /\ pc = "start"
    /\ disk \in Disks
    /\ final_county_data = EmptyTable
    /\ vf_cases_raw = <<>>
    /\ vf_cases = <<>>
    /\ vf_cases_clean = <<>>
    /\ vf_annual_data = {}
    /\ vf_statewide_annual = {}
    /\ fallback = "none"
    /\ name = <<>>
    /\ stage = "idle"
    /\ first = <<>>
    /\ pass = 0
    /\ ProcIdle

LoadCountyData ==
    /\ pc = "start"
    /\ final_county_data' = disk.county
    /\ pc' = "county_loaded"
    /\ UNCHANGED <<disk, vf_cases_raw, vf_cases, vf_cases_clean, vf_annual_data,
                   vf_statewide_annual, fallback>>
    /\ UNCHANGED <<normVars, procVars>>

LoadCases ==
    /\ pc = "county_loaded"
    /\ vf_cases_raw' = disk.cases
    /\ vf_cases' = disk.cases
    /\ pc' = "cases_loaded"
    /\ UNCHANGED <<disk, final_county_data, vf_cases_clean, vf_annual_data,
                   vf_statewide_annual, fallback>>
    /\ UNCHANGED <<normVars, procVars>>

NormalizeCounty ==
    /\ pc = "cases_loaded"
    /\ vf_cases' = NormalizeRows(vf_cases)
    /\ pc' = "normalized"
    /\ UNCHANGED <<disk, final_county_data, vf_cases_raw, vf_cases_clean,
                   vf_annual_data, vf_statewide_annual, fallback>>
    /\ UNCHANGED <<normVars, procVars>>

ApplyMappings ==
    /\ pc = "normalized"
    /\ vf_cases' = MapRows(vf_cases)
    /\ pc' = "mapped"
    /\ UNCHANGED <<disk, final_county_data, vf_cases_raw, vf_cases_clean,
                   vf_annual_data, vf_statewide_annual, fallback>>
    /\ UNCHANGED <<normVars, procVars>>

ConvertCases ==
    /\ pc = "mapped"
    /\ vf_cases' = ConvertRows(vf_cases)
    /\ pc' = "converted"
    /\ UNCHANGED <<disk, final_county_data, vf_cases_raw, vf_cases_clean,
                   vf_annual_data, vf_statewide_annual, fallback>>
    /\ UNCHANGED <<normVars, procVars>>

FilterInvalid ==
    /\ pc = "converted"
    /\ vf_cases_clean' = FilterRows(vf_cases)
    /\ pc' = "filtered"
    /\ UNCHANGED <<disk, final_county_data, vf_cases_raw, vf_cases,
                   vf_annual_data, vf_statewide_annual, fallback>>
    /\ UNCHANGED <<normVars, procVars>>

GroupCountyYear ==
    /\ pc = "filtered"
    /\ vf_annual_data' = GroupByCountyYear(vf_cases_clean)
    /\ pc' = "grouped"
    /\ UNCHANGED <<disk, final_county_data, vf_cases_raw, vf_cases, vf_cases_clean,
                   vf_statewide_annual, fallback>>
    /\ UNCHANGED <<normVars, procVars>>

FilterToAvailable ==
    /\ pc = "grouped"
    /\ vf_annual_data' = FilterAvailable(vf_annual_data, final_county_data)
    /\ pc' = "joined"
    /\ UNCHANGED <<disk, final_county_data, vf_cases_raw, vf_cases, vf_cases_clean,
                   vf_statewide_annual, fallback>>
    /\ UNCHANGED <<normVars, procVars>>

StatewideAnnualUnfiltered ==
    /\ pc = "joined"
    /\ vf_statewide_annual' = GroupByYear(GroupByCountyYear(vf_cases_clean))
    /\ pc' = "aggregated"
    /\ UNCHANGED <<disk, final_county_data, vf_cases_raw, vf_cases, vf_cases_clean,
                   vf_annual_data, fallback>>
    /\ UNCHANGED <<normVars, procVars>>
StatewideAnnual ==
    /\ pc = "joined"
    /\ vf_statewide_annual' = GroupByYear(vf_annual_data)
    /\ pc' = "aggregated"
    /\ UNCHANGED <<disk, final_county_data, vf_cases_raw, vf_cases, vf_cases_clean,
                   vf_annual_data, fallback>>
    /\ UNCHANGED <<normVars, procVars>>

\* line 63 false: the table keeps its predictions
KeepPredictions ==
    /\ pc = "aggregated"
    /\ ~NeedsPredictions(final_county_data)
    /\ pc' = "predicted"
    /\ UNCHANGED <<disk, final_county_data, vf_cases_raw, vf_cases, vf_cases_clean,
                   vf_annual_data, vf_statewide_annual, fallback>>
    /\ UNCHANGED <<normVars, procVars>>

\* lines 82-85
PlaceholderFewFeatures ==
    /\ pc = "aggregated"
    /\ NeedsPredictions(final_county_data)
    /\ Cardinality(available_features(final_county_data)) < MinFeatures
    /\ \E m \in [1..NRows(final_county_data) -> Multipliers] :
          final_county_data' =
              SetPredictions(final_county_data, PlaceholderValues(final_county_data, m))
    /\ fallback' = "placeholder"
    /\ pc' = "predicted"
    /\ UNCHANGED <<disk, vf_cases_raw, vf_cases, vf_cases_clean,
                   vf_annual_data, vf_statewide_annual>>
    /\ UNCHANGED <<normVars, procVars>>

\* lines 96-99
PlaceholderFewRows ==
    /\ pc = "aggregated"
    /\ NeedsPredictions(final_county_data)
    /\ Cardinality(available_features(final_county_data)) >= MinFeatures
    /\ Cardinality(mask(final_county_data)) < MinRows
    /\ \E m \in [1..NRows(final_county_data) -> Multipliers] :
          final_county_data' =
              SetPredictions(final_county_data, PlaceholderValues(final_county_data, m))
    /\ fallback' = "placeholder"
    /\ pc' = "predicted"
    /\ UNCHANGED <<disk, vf_cases_raw, vf_cases, vf_cases_clean,
                   vf_annual_data, vf_statewide_annual>>
    /\ UNCHANGED <<normVars, procVars>>

\* lines 101-115
RandomForest ==
    /\ pc = "aggregated"
    /\ NeedsPredictions(final_county_data)
    /\ Cardinality(available_features(final_county_data)) >= MinFeatures
    /\ Cardinality(mask(final_county_data)) >= MinRows
    /\ \E p \in [1..NRows(final_county_data) -> ForestRange(final_county_data)] :
          final_county_data' =
              SetPredictions(final_county_data,
                             [i \in 1..NRows(final_county_data) |-> Num(p[i])])
    /\ fallback' = "forest"
    /\ pc' = "predicted"
    /\ UNCHANGED <<disk, vf_cases_raw, vf_cases, vf_cases_clean,
                   vf_annual_data, vf_statewide_annual>>
    /\ UNCHANGED <<normVars, procVars>>

\* lines 67-70
Return ==
    /\ pc = "predicted"
    /\ pc' = "done"
    /\ UNCHANGED <<disk, final_county_data, vf_cases_raw, vf_cases, vf_cases_clean,
                   vf_annual_data, vf_statewide_annual, fallback>>
    /\ UNCHANGED <<normVars, procVars>>

Next ==
    \/ LoadCountyData
    \/ LoadCases
    \/ NormalizeCounty
    \/ ApplyMappings
    \/ ConvertCases
    \/ FilterInvalid
    \/ GroupCountyYear
    \/ FilterToAvailable
    \/ StatewideAnnual
    \/ KeepPredictions
    \/ PlaceholderFewFeatures
    \/ PlaceholderFewRows
    \/ RandomForest
    \/ Return

Spec == Init /\ [][Next]_vars

---------------------------------------------------------------------------
(* County-name normalisation on its own: lines 31 and 39 applied to one    *)
(* string, then applied again to the result                                *)

NormInit ==
    /\ pc = "idle"
    /\ disk = [county |-> EmptyTable, cases |-> <<>>]
    /\ final_county_data = EmptyTable
    /\ vf_cases_raw = <<>>
    /\ vf_cases = <<>>
    /\ vf_cases_clean = <<>>
    /\ vf_annual_data = {}
    /\ vf_statewide_annual = {}
    /\ fallback = "none"
    /\ name \in RawNames
    /\ stage = "raw"
    /\ first = <<>>
    /\ pass = 1
    /\ ProcIdle

UpperStep ==
    /\ stage = "raw"
    /\ name' = StrUpper(name)
    /\ stage' = "upper"
    /\ UNCHANGED <<first, pass>>
    /\ UNCHANGED <<pipeVars, procVars>>

RemoveStep ==
    /\ stage = "upper"
    /\ name' = StrRemove(name, COUNTY_SUFFIX)
    /\ stage' = "replaced"
    /\ UNCHANGED <<first, pass>>
    /\ UNCHANGED <<pipeVars, procVars>>

StripStep ==
    /\ stage = "replaced"
    /\ name' = StrStrip(name)
    /\ stage' = "stripped"
    /\ UNCHANGED <<first, pass>>
    /\ UNCHANGED <<pipeVars, procVars>>

MapStep ==
    /\ stage = "stripped"
    /\ name' = ReplaceMappings(name)
    /\ stage' = "mapped"
    /\ first' = IF pass = 1 THEN ReplaceMappings(name) ELSE first
    /\ UNCHANGED pass
    /\ UNCHANGED <<pipeVars, procVars>>

AgainStep ==
    /\ stage = "mapped"
    /\ pass = 1
    /\ stage' = "raw"
    /\ pass' = 2
    /\ UNCHANGED <<name, first>>
    /\ UNCHANGED <<pipeVars, procVars>>

NormNext ==
    \/ UpperStep
    \/ RemoveStep
    \/ StripStep
    \/ MapStep
    \/ AgainStep

NormSpec == NormInit /\ [][NormNext]_vars

---------------------------------------------------------------------------
(* The processes that run the pipeline: app.py, app.py --static,           *)
(* run_app.py and generate_static.py.  Here load_and_process_data is one   *)
(* step, and the three tables are the names the caller binds its result to *)

FINAL_COUNTY_DATA == "final_county_data"
CASES_CSV == "valley_fever_cases_by_lhd_2001-2023.csv"
SVI_CSV == "california_county.csv"
CES_CSV == "CalEnviroScreen_4.0_Results.csv"
FileNames == {FINAL_COUNTY_DATA, CASES_CSV, SVI_CSV, CES_CSV}
PrimaryFiles == {FINAL_COUNTY_DATA, CASES_CSV}
\* run_app.py lines 17-21
required_files == {FINAL_COUNTY_DATA, CASES_CSV, SVI_CSV}

APP == "app.py"
APP_STATIC == "app.py --static"
RUN_APP == "run_app.py"
GENERATE_STATIC == "generate_static.py"
EntryPoints == {APP, APP_STATIC, RUN_APP, GENERATE_STATIC}
ServerEntries == {APP, RUN_APP}
StaticEntries == {APP_STATIC, GENERATE_STATIC}

\* app.py lines 463-464 and generate_static.py line 214
AppStaticDir == "../docs"
AppStaticPath == "../docs/index.html"
output_file == "/docs/index.html"
Dir(path) == [path |-> path, kind |-> "dir"]
File(path) == [path |-> path, kind |-> "file"]

\* load_svi_data and load_ces_data: the frame, or None after a message
load_svi_data(present) == IF SVI_CSV \in present THEN "DataFrame" ELSE "None"
load_ces_data(present) == IF CES_CSV \in present THEN "DataFrame" ELSE "None"

\* create_model_predictions: the tables it can return, with the path taken
PredictionOutcomes(df) ==
    IF Cardinality(available_features(df)) < MinFeatures
       \/ Cardinality(mask(df)) < MinRows
    THEN { [df |-> SetPredictions(df, PlaceholderValues(df, m)), path |-> "placeholder"] :
             m \in [1..NRows(df) -> Multipliers] }
    ELSE { [df |-> SetPredictions(df, [i \in 1..NRows(df) |-> Num(p[i])]), path |-> "forest"] :
             p \in [1..NRows(df) -> ForestRange(df)] }

\* the scaler, fit and predict of lines 101-111 are reached
FitReached(df) ==
    /\ NeedsPredictions(df)
    /\ Cardinality(available_features(df)) >= MinFeatures
    /\ Cardinality(mask(df)) >= MinRows

Result(err, df, annual, path) ==
    [err |-> err, county |-> df, annual |-> annual,
     statewide |-> GroupByYear(annual), path |-> path]
Failure(err) == Result(err, EmptyTable, {}, "none")
MISSING_INPUT == "FileNotFoundError (input)"
FIT_ERROR == "error in fit or predict"
CHART_ERROR == "error in chart construction"
MISSING_DIR == "FileNotFoundError (output)"

\* load_and_process_data as a whole: every way the call can end
Successes(d) ==
    IF ~NeedsPredictions(d.county)
    THEN { Result("none", d.county, AnnualOf(d.cases, d.county), "none") }
    ELSE { Result("none", o.df, AnnualOf(d.cases, d.county), o.path) :
             o \in PredictionOutcomes(d.county) }
PipelineResultsMissingAsEmpty(present, d) ==
    IF ~(PrimaryFiles \subseteq present)
    THEN { Result("none", EmptyTable, {}, "none") }
    ELSE Successes(d)
             \cup (IF FitReached(d.county) THEN { Failure(FIT_ERROR) } ELSE {})
PipelineResultsFitCaught(present, d) ==
    IF ~(PrimaryFiles \subseteq present)
    THEN { Failure(MISSING_INPUT) }
    ELSE Successes(d)
             \cup (IF FitReached(d.county)
                   THEN { Result("none",
                                 SetPredictions(d.county, [i \in 1..NRows(d.county) |-> NaN]),
                                 AnnualOf(d.cases, d.county), "forest") }
                   ELSE {})
PipelineResults(present, d) ==
    IF ~(PrimaryFiles \subseteq present)
    THEN { Failure(MISSING_INPUT) }
    ELSE Successes(d)
             \cup (IF FitReached(d.county) THEN { Failure(FIT_ERROR) } ELSE {})

\* DataFrame.sort_values(by=col, ascending=True): rows with a value in
\* ascending order (equal values in any order), then the rows without one
RECURSIVE Ascending(_, _)
Ascending(key, rows) ==
    IF rows = {} THEN { <<>> }
    ELSE UNION { { <<i>> \o t : t \in Ascending(key, rows \ {i}) } :
                   i \in { r \in rows : \A q \in rows : key[r].v <= key[q].v } }
RECURSIVE InOrder(_)
InOrder(rows) ==
    IF rows = {} THEN <<>>
    ELSE LET i == CHOOSE r \in rows : \A q \in rows : r <= q
         IN  <<i>> \o InOrder(rows \ {i})
SortOrders(df, col) ==
    LET key == df.num[col]
        valued == { i \in 1..NRows(df) : ~key[i].na }
    IN  { o \o InOrder((1..NRows(df)) \ valued) : o \in Ascending(key, valued) }
Reorder(df, order) ==
    [county |-> [i \in 1..Len(order) |-> df.county[order[i]]],
     num |-> [c \in Columns(df) |-> [i \in 1..Len(order) |-> df.num[c][order[i]]]]]

\* DataFrame.tail(20)
TopCount == 20
TailRows(s, n) == IF Len(s) <= n THEN s ELSE SubSeq(s, Len(s) - n + 1, Len(s))

\* Series.idxmax() of vf_rate: the first row with the greatest value
HasRate(df) == \E i \in 1..NRows(df) : ~df.num["vf_rate"][i].na
IdxMax(df) ==
    CHOOSE i \in 1..NRows(df) :
        /\ ~df.num["vf_rate"][i].na
        /\ \A j \in 1..NRows(df) :
              df.num["vf_rate"][j].na
              \/ df.num["vf_rate"][j].v < df.num["vf_rate"][i].v
              \/ (df.num["vf_rate"][j].v = df.num["vf_rate"][i].v /\ i <= j)

\* the chart builders of app.py
create_choropleth_map(df, order) ==
    View("bar", TailRows(Reorder(df, order).county, TopCount),
         TailRows(order, TopCount), {}, {})
create_svi_scatter_plot(df) ==
    View("scatter", df.county, [i \in 1..NRows(df) |-> i], {}, {})
create_gam_performance_plot(df) ==
    LET valid == SelectSeq([i \in 1..NRows(df) |-> i],
                           LAMBDA i : ~df.num["gam_predictions"][i].na)
    IN  IF Len(valid) = 0 THEN View("no predictions", <<>>, <<>>, {}, {})
        ELSE View("performance", [k \in 1..Len(valid) |-> df.county[valid[k]]],
                  valid, {}, {})
create_timeseries_plot(statewide) == View("timeseries", <<>>, <<>>, {}, statewide)

Tabs == {"map-tab", "svi-tab", "gam-tab", "timeseries-tab"}
STATEWIDE == <<"s", "t", "a", "t", "e", "w", "i", "d", "e">>
\* the dropdown's values; <<>> stands for None
Selections(df) == { <<>>, STATEWIDE } \cup { df.county[i] : i \in 1..NRows(df) }


\* the inputs of a process
\* more counties than the bar chart has places; two of them lack vf_rate
Numbered(i) == <<"C", Digits[(i \div 10) + 1], Digits[(i % 10) + 1]>>
WideTable ==
    Table([i \in 1..(TopCount + 2) |-> Numbered(i)],
          [c \in {"vf_rate", "gam_predictions"} |->
              [i \in 1..(TopCount + 2) |->
                  IF c = "vf_rate" /\ i <= 2 THEN NaN ELSE Num(Fixed(i))]])
ProcTables ==
    { TableWithPredictions, TableWithEmptyPredictions, WideTable,
      BuildTable(MinRows, 0, 0, {"rpl_themes", "avg_pm25"}, "absent"),
      BuildTable(MaxCounties, 1, 0, {"rpl_themes", "avg_pm25", "avg_temp", "avg_ppt"}, "absent"),
      BuildTable(3, 1, 0, {"rpl_themes"}, "some") }
ProcCaseFiles ==
    { SmallCaseFile,
      << Row(Raw_KernCounty, 2020, <<"1", "2", "0", "*">>),
         Row(FRESNO, 2020, <<"5">>),
         Row(Raw_KernStar, 2021, <<"9">>) >> }
ProcDisks == [county : ProcTables, cases : ProcCaseFiles]

ProcInit ==
    /\ pc = "launch"
    /\ entry \in EntryPoints
    /\ files \in SUBSET FileNames
    /\ disk \in ProcDisks
    /\ final_county_data = EmptyTable
    /\ vf_cases_raw = <<>>
    /\ vf_cases = <<>>
    /\ vf_cases_clean = <<>>
    /\ vf_annual_data = {}
    /\ vf_statewide_annual = {}
    /\ fallback = "none"
    /\ name = <<>>
    /\ stage = "idle"
    /\ first = <<>>
    /\ pass = 0
    /\ runs = 0
    /\ loaded = FALSE
    /\ server = FALSE
    /\ written = {}
    /\ raised = "none"
    /\ exit = "running"
    /\ view = NoView

tables == <<final_county_data, vf_annual_data, vf_statewide_annual>>
scratch == <<disk, vf_cases_raw, vf_cases, vf_cases_clean, fallback>>

\* run_app.py lines 17-34
CheckRequiredFiles ==
    /\ pc = "launch"
    /\ entry = RUN_APP
    /\ IF required_files \subseteq files
       THEN pc' = "checked" /\ exit' = exit
       ELSE pc' = "exited" /\ exit' = "1"
    /\ UNCHANGED <<tables, scratch, normVars>>
    /\ UNCHANGED <<entry, files, runs, loaded, server, written, raised, view>>

\* app.py line 12 (also when run_app.py line 45 imports app) and
\* generate_static.py line 17; an exception ends the process, in
\* run_app.py by way of lines 49-51
RunPipeline ==
    /\ entry \in EntryPoints
    /\ pc = (IF entry = RUN_APP THEN "checked" ELSE "launch")
    /\ runs' = runs + 1
    /\ \E r \in PipelineResults(files, disk) :
          IF r.err = "none"
          THEN /\ final_county_data' = r.county
               /\ vf_annual_data' = r.annual
               /\ vf_statewide_annual' = r.statewide
               /\ fallback' = r.path
               /\ loaded' = TRUE
               /\ pc' = "loaded"
               /\ UNCHANGED <<raised, exit>>
          ELSE /\ raised' = r.err
               /\ exit' = "1"
               /\ pc' = "exited"
               /\ UNCHANGED <<tables, fallback, loaded>>
    /\ UNCHANGED <<disk, vf_cases_raw, vf_cases, vf_cases_clean, normVars>>
    /\ UNCHANGED <<entry, files, server, written, view>>

\* app.py line 475 and run_app.py line 46
StartServer ==
    /\ pc = "loaded"
    /\ entry \in ServerEntries
    /\ server' = TRUE
    /\ pc' = "serving"
    /\ UNCHANGED <<tables, scratch, normVars>>
    /\ UNCHANGED <<entry, files, runs, loaded, written, raised, exit, view>>

\* what a callback leaves as it is: everything but its return value
served == <<pc, tables, scratch, normVars,
            entry, files, runs, loaded, server, written, raised, exit>>

\* app.py lines 155-168
update_metrics ==
    /\ pc = "serving"
    /\ view' = IF HasRate(final_county_data)
               THEN View("metrics", <<final_county_data.county[IdxMax(final_county_data)]>>,
                         <<NRows(final_county_data)>>, {}, {})
               ELSE View("callback error", <<>>, <<>>, {}, {})
    /\ UNCHANGED served

\* app.py lines 174-182
update_tab_contentInPlace ==
    /\ pc = "serving"
    /\ \E order \in SortOrders(final_county_data, "vf_rate") :
          /\ view' = create_choropleth_map(final_county_data, order)
          /\ final_county_data' = Reorder(final_county_data, order)
    /\ UNCHANGED <<pc, vf_annual_data, vf_statewide_annual, scratch, normVars>>
    /\ UNCHANGED <<entry, files, runs, loaded, server, written, raised, exit>>
update_tab_content ==
    /\ pc = "serving"
    /\ \E active_tab \in Tabs :
          CASE active_tab = "map-tab" ->
                 \E order \in SortOrders(final_county_data, "vf_rate") :
                     view' = create_choropleth_map(final_county_data, order)
            [] active_tab = "svi-tab" ->
                 view' = create_svi_scatter_plot(final_county_data)
            [] active_tab = "gam-tab" ->
                 view' = create_gam_performance_plot(final_county_data)
            [] active_tab = "timeseries-tab" ->
                 view' = create_timeseries_plot(vf_statewide_annual)
    /\ UNCHANGED served

\* app.py lines 188-194
update_statewide_trendReload ==
    /\ pc = "serving"
    /\ view' = View("statewide trend", <<>>, <<>>, {}, vf_statewide_annual)
    /\ runs' = runs + 1
    /\ UNCHANGED <<pc, tables, scratch, normVars>>
    /\ UNCHANGED <<entry, files, loaded, server, written, raised, exit>>
update_statewide_trend ==
    /\ pc = "serving"
    /\ view' = View("statewide trend", <<>>, <<>>, {}, vf_statewide_annual)
    /\ UNCHANGED served

\* app.py lines 200-216
update_county_trend ==
    /\ pc = "serving"
    /\ \E selected_county \in Selections(final_county_data) :
          view' = IF selected_county = <<>> \/ selected_county = STATEWIDE
                  THEN View("county trend", <<>>, <<>>, {}, vf_statewide_annual)
                  ELSE View("county trend", <<selected_county>>, <<>>,
                            { r \in vf_annual_data : r.county = selected_county }, {})
    /\ UNCHANGED served

\* Ctrl+C: run_app.py lines 47-48
StopServer ==
    /\ pc = "serving"
    /\ pc' = "exited"
    /\ exit' = "0"
    /\ UNCHANGED <<tables, scratch, normVars>>
    /\ UNCHANGED <<entry, files, runs, loaded, server, written, raised, view>>

\* the charts of an export: an exception in one of them ends the process
StaticView(order) ==
    View("static html",
         TailRows(Reorder(final_county_data, order).county, TopCount),
         TailRows(order, TopCount),
         { r \in vf_annual_data : r.county = KERN }, vf_statewide_annual)

\* app.py lines 296-468, called from line 473
generate_static_html ==
    /\ pc = "loaded"
    /\ entry = APP_STATIC
    /\ pc' = "exited"
    /\ \/ /\ HasRate(final_county_data)
          /\ \E order \in SortOrders(final_county_data, "vf_rate") :
                view' = StaticView(order)
          /\ written' = written \cup {Dir(AppStaticDir), File(AppStaticPath)}
          /\ exit' = "0"
          /\ UNCHANGED raised
       \/ /\ raised' = CHART_ERROR
          /\ exit' = "1"
          /\ UNCHANGED <<written, view>>
    /\ UNCHANGED <<tables, scratch, normVars>>
    /\ UNCHANGED <<entry, files, runs, loaded, server>>

\* generate_static.py lines 19-216: line 215 does not create /docs
create_static_dashboard ==
    /\ pc = "loaded"
    /\ entry = GENERATE_STATIC
    /\ pc' = "exited"
    /\ \/ /\ HasRate(final_county_data)
          /\ \E order \in SortOrders(final_county_data, "vf_rate") :
                view' = StaticView(order)
          /\ written' = written \cup {File(output_file)}
          /\ exit' = "0"
          /\ UNCHANGED raised
       \/ /\ raised' \in {CHART_ERROR, MISSING_DIR}
          /\ exit' = "1"
          /\ UNCHANGED <<written, view>>
    /\ UNCHANGED <<tables, scratch, normVars>>
    /\ UNCHANGED <<entry, files, runs, loaded, server>>

ProcNext ==
    \/ CheckRequiredFiles
    \/ RunPipeline
    \/ StartServer
    \/ update_metrics
    \/ update_tab_content
    \/ update_statewide_trend
    \/ update_county_trend
    \/ StopServer
    \/ generate_static_html
    \/ create_static_dashboard

ProcSpec == ProcInit /\ [][ProcNext]_vars

---------------------------------------------------------------------------
(* Properties of the aggregation *)

Joined == pc \in {"joined", "aggregated", "predicted", "done"}
Aggregated == pc \in {"aggregated", "predicted", "done"}
Predicted == pc \in {"predicted", "done"}
TableCounties == { disk.county.county[i] : i \in 1..Len(disk.county.county) }

RECURSIVE TotalCases(_)
TotalCases(S) ==
    IF S = {} THEN 0
    ELSE LET r == CHOOSE x \in S : TRUE IN r.annual_cases + TotalCases(S \ {r})

RemoveAt(s, i) == SubSeq(s, 1, i - 1) \o SubSeq(s, i + 1, Len(s))

\* C1: for every year the statewide record equals the sum of annual_cases over
\* the join-filtered Annual Case Records of that year, and a year has a
\* statewide record exactly when some Annual Case Record has that year.
C1_StatewideIsSumOfAnnual ==
    Aggregated =>
        /\ \A s \in vf_statewide_annual :
              s.total_statewide_cases =
                  TotalCases({ r \in vf_annual_data : r.year = s.year })
        /\ \A s, u \in vf_statewide_annual : s.year = u.year => s = u
        /\ { s.year : s \in vf_statewide_annual } = { r.year : r \in vf_annual_data }

\* a year with records of two counties, and a clean row the join dropped
C1_Witness ==
    /\ pc = "done"
    /\ \E s \in vf_statewide_annual :
          Cardinality({ r \in vf_annual_data : r.year = s.year }) >= 2
    /\ \E i \in 1..Len(vf_cases_clean) :
          vf_cases_clean[i].county \notin TableCounties

\* the alias table as the claim states it
AliasTarget(n) ==
    CASE n = BERKELEY -> ALAMEDA
      [] n = LONG_BEACH -> LOS_ANGELES
      [] n = PASADENA -> LOS_ANGELES
      [] OTHER -> n
AliasNames == {BERKELEY, LONG_BEACH, PASADENA}

\* sum of the parsed counts of the raw rows of one year whose name, cleaned
\* and alias-resolved, is county
RECURSIVE RawSum(_, _, _)
RawSum(rows, county, year) ==
    IF Len(rows) = 0 THEN 0
    ELSE (IF /\ AliasTarget(CleanCounty(rows[1].county)) = county
             /\ rows[1].year = year
             /\ ~ParseCases(rows[1].cases_raw).na
          THEN ParseCases(rows[1].cases_raw).v ELSE 0)
         + RawSum(Tail(rows), county, year)

\* C2: alias mapping precedes the TOTAL filter and the grouping; a raw row
\* whose cleaned name is an alias adds its parsed count to the record of the
\* mapped county for its year; no record is keyed by an alias name; the rows
\* (BERKELEY, 2020, 150), (ALAMEDA, 2020, 50) give exactly (ALAMEDA, 2020, 200).
C2_AliasMergedIntoCounty ==
    /\ pc = "mapped" => vf_cases_clean = <<>> /\ vf_annual_data = {}
    /\ pc \in {"mapped", "converted"} =>
          \A i \in 1..Len(vf_cases) : vf_cases[i].county \notin AliasNames
    /\ (pc = "grouped" \/ Joined) => \A r \in vf_annual_data : r.county \notin AliasNames
    /\ pc = "grouped" =>
          \A i \in 1..Len(vf_cases_raw) :
              LET row == vf_cases_raw[i]
                  target == AliasTarget(CleanCounty(row.county))
              IN  ( /\ CleanCounty(row.county) \in AliasNames
                    /\ ~ParseCases(row.cases_raw).na )
                  => \E r \in vf_annual_data :
                        /\ r.county = target
                        /\ r.year = row.year
                        /\ r.annual_cases = RawSum(vf_cases_raw, target, row.year)
    /\ pc = "done" =>
          /\ \A i \in 1..Len(vf_cases_raw) :
                LET row == vf_cases_raw[i]
                    target == AliasTarget(CleanCounty(row.county))
                IN  ( /\ CleanCounty(row.county) \in AliasNames
                      /\ ~ParseCases(row.cases_raw).na
                      /\ target \in TableCounties )
                    => \E r \in vf_annual_data :
                          /\ r.county = target
                          /\ r.year = row.year
                          /\ r.annual_cases = RawSum(vf_cases_raw, target, row.year)
          /\ (vf_cases_raw = SmallCaseFile /\ ALAMEDA \in TableCounties)
                => vf_annual_data =
                      { [county |-> ALAMEDA, year |-> 2020, annual_cases |-> 200] }

C2_Witness ==
    /\ pc = "done"
    /\ vf_cases_raw = SmallCaseFile
    /\ vf_annual_data = { [county |-> ALAMEDA, year |-> 2020, annual_cases |-> 200] }

\* C3: a raw row whose count does not parse adds nothing and never stops the
\* pipeline: both returned tables equal those of the input without that row.
C3_UnparseableRowIgnored ==
    /\ pc = "done" =>
          \A i \in 1..Len(vf_cases_raw) :
              ParseCases(vf_cases_raw[i].cases_raw).na =>
                  LET annual == AnnualOf(RemoveAt(vf_cases_raw, i), disk.county)
                  IN  /\ vf_annual_data = annual
                      /\ vf_statewide_annual = GroupByYear(annual)
    /\ (pc \in {"mapped", "converted", "filtered"}
           /\ \E i \in 1..Len(vf_cases_raw) : ParseCases(vf_cases_raw[i].cases_raw).na)
          => ENABLED (ConvertCases \/ FilterInvalid \/ GroupCountyYear)

\* an unparseable row beside a parsed row of the same county and year
C3_Witness ==
    /\ pc = "done"
    /\ \E i, j \in 1..Len(vf_cases_raw) :
          /\ ParseCases(vf_cases_raw[i].cases_raw).na
          /\ ~ParseCases(vf_cases_raw[j].cases_raw).na
          /\ CanonicalCounty(vf_cases_raw[i].county) = CanonicalCounty(vf_cases_raw[j].county)
          /\ vf_cases_raw[i].year = vf_cases_raw[j].year
          /\ \E r \in vf_annual_data :
                /\ r.county = CanonicalCounty(vf_cases_raw[j].county)
                /\ r.year = vf_cases_raw[j].year

---------------------------------------------------------------------------
(* Properties of the predictor fallback *)

GamColumn == final_county_data.num["gam_predictions"]

\* C4: whenever create_model_predictions has run, on either path, every row
\* of the returned table has a non-missing gam_predictions value.
C4_EveryRowPredicted ==
    (Predicted /\ fallback # "none") =>
        \A i \in 1..NRows(final_county_data) : ~GamColumn[i].na

---------------------------------------------------------------------------
(* Properties of the cleaning *)

\* C5: normalising the result of a normalisation returns it unchanged.
C5_NormalizationIdempotent ==
    (stage = "mapped" /\ pass = 2) => name = first

NotStar(c) == c # "*"
Unsigned(s) == IF Len(s) > 0 /\ s[1] \in {"-", "+"} THEN Tail(s) ELSE s
IsNumeral(s) ==
    /\ Len(Unsigned(s)) > 0
    /\ \A i \in 1..Len(Unsigned(s)) : Unsigned(s)[i] \in { Digits[k] : k \in 1..Len(Digits) }
RECURSIVE Pow10(_)
Pow10(k) == IF k = 0 THEN 1 ELSE 10 * Pow10(k - 1)
RECURSIVE Positional(_, _)
Positional(s, i) ==
    IF i > Len(s) THEN 0
    ELSE DigitVal(s[i]) * Pow10(Len(s) - i) + Positional(s, i + 1)
NumeralValue(s) ==
    IF Len(s) > 0 /\ s[1] = "-" THEN 0 - Positional(Unsigned(s), 1)
    ELSE Positional(Unsigned(s), 1)

\* C6: the parsed count of a raw field is the number its characters other
\* than '*' spell ("120*" gives 120); when they spell no number ("N/A") the
\* count is missing and the row is left out of the aggregation.
C6_CasesParsed ==
    /\ pc \in {"converted", "done"} =>
          \A i \in 1..Len(vf_cases) :
              LET raw == vf_cases_raw[i].cases_raw
                  rest == SelectSeq(raw, NotStar)
              IN  /\ IsNumeral(rest) => vf_cases[i].cases = Num(NumeralValue(rest))
                  /\ ~IsNumeral(rest) => vf_cases[i].cases = NaN
                  /\ raw = <<"1", "2", "0", "*">> => vf_cases[i].cases = Num(120)
                  /\ raw = <<"N", "/", "A">> => vf_cases[i].cases = NaN
    /\ pc \in {"filtered", "done"} =>
          /\ \A j \in 1..Len(vf_cases_clean) : ~vf_cases_clean[j].cases.na
          /\ Len(vf_cases_clean) <=
                 Cardinality({ i \in 1..Len(vf_cases) : ~vf_cases[i].cases.na })

C6_Witness ==
    /\ pc = "done"
    /\ \E i, j \in 1..Len(vf_cases) :
          /\ vf_cases_raw[i].cases_raw = <<"1", "2", "0", "*">>
          /\ vf_cases[i].cases = Num(120)
          /\ vf_cases_raw[j].cases_raw = <<"N", "/", "A">>
          /\ vf_cases[j].cases = NaN
          /\ Len(vf_cases_clean) < Len(vf_cases)

\* canonical name of a raw row, as the claims use it
CanonicalOf(row) == AliasTarget(CleanCounty(row.county))
HasTotal(s) == \E i \in 1..(Len(s) - 4) : SubSeq(s, i, i + 4) = TOTAL

\* C7: a row whose canonical county name contains "TOTAL" contributes to no
\* Annual Case Record and to no Statewide Annual Record, and no Annual Case
\* Record has such a name, even when the County Record table lists it.
C7_TotalRowsExcluded ==
    /\ Joined => \A r \in vf_annual_data : ~HasTotal(r.county)
    /\ pc = "done" =>
          LET NotTotal(row) == ~HasTotal(CanonicalOf(row))
              annual == AnnualOf(SelectSeq(vf_cases_raw, NotTotal), disk.county)
          IN  /\ vf_annual_data = annual
              /\ vf_statewide_annual = GroupByYear(annual)

\* a parsed TOTAL row whose name the County Record table lists
C7_Witness ==
    /\ pc = "done"
    /\ \E i \in 1..Len(vf_cases_raw) :
          /\ HasTotal(CanonicalOf(vf_cases_raw[i]))
          /\ CanonicalOf(vf_cases_raw[i]) \in TableCounties
          /\ ~ParseCases(vf_cases_raw[i].cases_raw).na
    /\ vf_annual_data # {}

\* C8: every Annual Case Record has a county of the County Record table, the
\* statewide records sum only those, and rows of counties absent from the
\* table affect neither output.
C8_JoinFilter ==
    /\ Joined =>
          \A r \in vf_annual_data :
              \E i \in 1..Len(final_county_data.county) :
                  final_county_data.county[i] = r.county
    /\ Aggregated =>
          \A s \in vf_statewide_annual :
              s.total_statewide_cases =
                  TotalCases({ r \in vf_annual_data :
                                  r.year = s.year /\ r.county \in TableCounties })
    /\ pc = "done" =>
          LET Present(row) == CanonicalOf(row) \in TableCounties
              annual == AnnualOf(SelectSeq(vf_cases_raw, Present), disk.county)
          IN  /\ vf_annual_data = annual
              /\ vf_statewide_annual = GroupByYear(annual)

\* a valid row of a county the table lacks, beside records that are returned
C8_Witness ==
    /\ pc = "done"
    /\ \E i \in 1..Len(vf_cases_clean) :
          vf_cases_clean[i].county \notin TableCounties
    /\ vf_annual_data # {}
    /\ vf_statewide_annual # {}

---------------------------------------------------------------------------
(* Properties of the call of the predictor fallback *)

LoadedNum == disk.county.num
LoadedRows == 1..Len(disk.county.county)
LacksPredictions ==
    IF "gam_predictions" \notin DOMAIN LoadedNum THEN TRUE
    ELSE \A i \in LoadedRows : LoadedNum["gam_predictions"][i].na

\* C9: the fallback runs only when the table has no gam_predictions column
\* or the column is entirely missing; otherwise the loaded table is returned
\* with gam_predictions unchanged.
C9_FallbackOnlyWhenNeeded ==
    Predicted =>
        /\ fallback # "none" <=> LacksPredictions
        /\ ~LacksPredictions => final_county_data = disk.county

\* a kept column with missing and non-missing values
C9_Witness ==
    /\ pc = "done"
    /\ fallback = "none"
    /\ \E i, j \in 1..NRows(final_county_data) : GamColumn[i].na /\ ~GamColumn[j].na

LoadedFeatures ==
    {"rpl_themes", "avg_pm25", "avg_temp", "avg_ppt"} \cap DOMAIN LoadedNum
CompleteRows ==
    { i \in LoadedRows :
        /\ ~LoadedNum["vf_rate"][i].na
        /\ \A c \in LoadedFeatures : ~LoadedNum[c][i].na }

\* C10: the placeholder path is taken exactly when fewer than two of the four
\* covariates are columns or fewer than five rows are complete, the
\* random-forest path in every other case, and the call never fails.
C10_PathChoice ==
    /\ (Predicted /\ fallback # "none") =>
          /\ fallback = "placeholder" <=>
                (Cardinality(LoadedFeatures) < 2 \/ Cardinality(CompleteRows) < 5)
          /\ fallback = "forest" <=>
                (Cardinality(LoadedFeatures) >= 2 /\ Cardinality(CompleteRows) >= 5)
    /\ (pc = "aggregated" /\ LacksPredictions)
          => ENABLED (PlaceholderFewFeatures \/ PlaceholderFewRows \/ RandomForest)

\* the forest path on a table with an incomplete row
C10_Witness ==
    /\ pc = "done"
    /\ fallback = "forest"
    /\ CompleteRows # LoadedRows

---------------------------------------------------------------------------
(* Further properties of the pipeline's outputs *)

LoadedRate == disk.county.num["vf_rate"]

\* C11: on the placeholder path every row with a non-negative vf_rate r gets
\* a prediction p with 0.8*r <= p <= 1.2*r, whatever multipliers are drawn.
C11_PlaceholderInRange ==
    (Predicted /\ fallback = "placeholder") =>
        \A i \in LoadedRows :
            (~LoadedRate[i].na /\ LoadedRate[i].v >= 0) =>
                /\ ~GamColumn[i].na
                /\ 8 * LoadedRate[i].v <= 10 * GamColumn[i].v
                /\ 10 * GamColumn[i].v <= 12 * LoadedRate[i].v

\* two rows with positive rates, one scaled by 0.8 and one by 1.2
C11_Witness ==
    /\ pc = "done"
    /\ fallback = "placeholder"
    /\ \E i, j \in LoadedRows :
          /\ ~LoadedRate[i].na /\ LoadedRate[i].v > 0
          /\ ~LoadedRate[j].na /\ LoadedRate[j].v > 0
          /\ 10 * GamColumn[i].v = 8 * LoadedRate[i].v
          /\ 10 * GamColumn[j].v = 12 * LoadedRate[j].v

\* C12: every Annual Case Record and every Statewide Annual Record has a
\* case count >= 0, also when a raw field parses to a negative number.
C12_CountsNonNegative ==
    Aggregated =>
        /\ \A r \in vf_annual_data : r.annual_cases >= 0
        /\ \A s \in vf_statewide_annual : s.total_statewide_cases >= 0

IsCanonicalName(n) ==
    /\ \A i \in 1..Len(n) : n[i] \notin { Lower[k] : k \in 1..Len(Lower) }
    /\ ~(Len(n) >= Len(COUNTY_SUFFIX)
          /\ SubSeq(n, Len(n) - Len(COUNTY_SUFFIX) + 1, Len(n)) = COUNTY_SUFFIX)

\* C13: in the returned County Record table the county names are canonical
\* and each name occurs in exactly one row.
C13_CountyNamesUnique ==
    pc = "done" =>
        /\ \A i \in 1..NRows(final_county_data) :
              IsCanonicalName(final_county_data.county[i])
        /\ \A i, j \in 1..NRows(final_county_data) :
              final_county_data.county[i] = final_county_data.county[j] => i = j

Swap(s, i, j) ==
    [k \in 1..Len(s) |-> IF k = i THEN s[j] ELSE IF k = j THEN s[i] ELSE s[k]]

\* C20: exchanging any two rows of the case file (every permutation is a
\* product of such exchanges, and every case file is an input of the model)
\* leaves the set of Annual Case Records and of Statewide Annual Records
\* unchanged.
C20_OrderIndependent ==
    pc = "done" =>
        \A i, j \in 1..Len(vf_cases_raw) :
            i < j =>
                LET annual == AnnualOf(Swap(vf_cases_raw, i, j), disk.county)
                IN  /\ vf_annual_data = annual
                    /\ vf_statewide_annual = GroupByYear(annual)

\* two different rows of one county and year, summed into one record
C20_Witness ==
    /\ pc = "done"
    /\ \E i, j \in 1..Len(vf_cases_raw) :
          /\ i < j
          /\ vf_cases_raw[i] # vf_cases_raw[j]
          /\ \E r \in vf_annual_data :
                /\ CanonicalOf(vf_cases_raw[i]) = r.county
                /\ CanonicalOf(vf_cases_raw[j]) = r.county
                /\ vf_cases_raw[i].year = r.year /\ vf_cases_raw[j].year = r.year
                /\ ~ParseCases(vf_cases_raw[i].cases_raw).na
                /\ ~ParseCases(vf_cases_raw[j].cases_raw).na
                /\ ParseCases(vf_cases_raw[i].cases_raw) # ParseCases(vf_cases_raw[j].cases_raw)

---------------------------------------------------------------------------
(* Properties of the processes *)

PrimaryMissing == ~(PrimaryFiles \subseteq files)
OnlyOptionalMissing == PrimaryFiles \subseteq files /\ files # FileNames
NothingBound ==
    /\ ~loaded
    /\ final_county_data = EmptyTable
    /\ vf_annual_data = {}
    /\ vf_statewide_annual = {}
FilesWritten == { w.path : w \in { x \in written : x.kind = "file" } }

\* C14: when one of the two primary input files is missing, whatever the
\* entry point, the caller receives no table, no server is started and no
\* file is written; the process can only go on to exit, with an error status.
C14_MissingPrimaryIsFatal ==
    (entry \in EntryPoints /\ PrimaryMissing) =>
        /\ NothingBound
        /\ ~server
        /\ written = {}
        /\ view = NoView
        /\ pc \in {"launch", "exited"}
        /\ pc = "exited" => exit = "1"
        /\ pc = "launch" => ENABLED (CheckRequiredFiles \/ RunPipeline)

\* generate_static.py with the case file missing: the read raised and the
\* process has ended
C14_Witness ==
    /\ entry = GENERATE_STATIC
    /\ CASES_CSV \notin files
    /\ FINAL_COUNTY_DATA \in files
    /\ pc = "exited"
    /\ runs = 1
    /\ raised = MISSING_INPUT

\* C15: a loader of an optional file returns nothing when the file is
\* missing, and no process that has both primary files ends before it has
\* run the pipeline because an optional file is absent.
C15_OptionalIsNotFatal ==
    /\ SVI_CSV \notin files => load_svi_data(files) = "None"
    /\ CES_CSV \notin files => load_ces_data(files) = "None"
    /\ (entry \in EntryPoints /\ OnlyOptionalMissing) => ~(pc = "exited" /\ runs = 0)

\* C16: when fit or predict fails, the caller receives no table, the process
\* ends with an error status, and nothing was served or written; a table
\* that the caller does receive after the fit was reached has a prediction
\* in every row.
C16_FitFailureIsFatal ==
    /\ raised = FIT_ERROR =>
           /\ NothingBound
           /\ pc = "exited"
           /\ exit = "1"
           /\ ~server
           /\ written = {}
           /\ view = NoView
    /\ (loaded /\ FitReached(disk.county)) =>
           /\ fallback = "forest"
           /\ \A i \in 1..NRows(final_county_data) : ~GamColumn[i].na

\* the fit failed under run_app.py, with every file in place
C16_Witness ==
    /\ raised = FIT_ERROR
    /\ entry = RUN_APP
    /\ files = FileNames
    /\ FitReached(disk.county)
    /\ runs = 1

\* C17: once the caller has the three tables, no step of the process (a
\* callback, a chart, an export, the end of the server) changes them.
C17_TablesNeverModified ==
    [][loaded => tables' = tables]_vars

\* the bar chart was built from a sorted copy whose row order differs from
\* the table's
C17_Witness ==
    /\ pc = "serving"
    /\ view.kind = "bar"
    /\ view.counties # final_county_data.county
    /\ final_county_data.county = disk.county.county

\* C18: the pipeline is called at most once; it has been called exactly once,
\* and has returned, before a server runs, a callback is answered or a file
\* is written, and it is not called again afterwards.
C18_PipelineRunsOnce ==
    /\ runs <= 1
    /\ (pc \in {"loaded", "serving"} \/ server \/ view # NoView \/ written # {}) =>
           (runs = 1 /\ loaded)

\* a callback has been answered, after the one run, with the records of a
\* county picked in the dropdown
C18_Witness ==
    /\ pc = "serving"
    /\ runs = 1
    /\ view.kind = "county trend"
    /\ view.annual # {}

StaticPathOf(e) == IF e = APP_STATIC THEN AppStaticPath ELSE output_file

\* C19: a static export starts no server and writes at most one file; when
\* it ends well it has written exactly one file, at the one path that every
\* static-export entry point writes to.
C19_OneFixedHtmlFile ==
    entry \in StaticEntries =>
        /\ ~server
        /\ Cardinality(FilesWritten) <= 1
        /\ (pc = "exited" /\ exit = "0") =>
              /\ FilesWritten = {StaticPathOf(entry)}
              /\ \A e \in StaticEntries : StaticPathOf(e) = StaticPathOf(entry)

---------------------------------------------------------------------------
(* The Annual Case Records, row by row *)

HasStar(s) == \E i \in 1..Len(s) : s[i] = "*"

\* a raw row that the claim lets count for (county, year)
CountsFor(row, county, year) ==
    /\ row.year = year
    /\ CanonicalOf(row) = county
    /\ ~ParseCases(row.cases_raw).na
    /\ ~HasTotal(county)
    /\ ~HasStar(county)
    /\ county \in TableCounties

RECURSIVE CountedSum(_, _, _)
CountedSum(rows, county, year) ==
    IF Len(rows) = 0 THEN 0
    ELSE (IF CountsFor(rows[1], county, year)
          THEN ParseCases(rows[1].cases_raw).v ELSE 0)
         + CountedSum(Tail(rows), county, year)

\* C21: (county, year) has an Annual Case Record exactly when some raw row of
\* that year has that canonical name, a count that parses, a name without
\* "TOTAL" and '*', and a county of the County Record table; the record holds
\* the sum of those rows, and there is one record per pair at most.
C21_AnnualRecordsExact ==
    pc = "done" =>
        /\ \A r \in vf_annual_data :
              /\ \E i \in 1..Len(vf_cases_raw) :
                    CountsFor(vf_cases_raw[i], r.county, r.year)
              /\ r.annual_cases = CountedSum(vf_cases_raw, r.county, r.year)
        /\ \A i \in 1..Len(vf_cases_raw) :
              LET row == vf_cases_raw[i]
              IN  CountsFor(row, CanonicalOf(row), row.year) =>
                      \E r \in vf_annual_data :
                          r.county = CanonicalOf(row) /\ r.year = row.year
        /\ \A r, q \in vf_annual_data :
              (r.county = q.county /\ r.year = q.year) => r = q

\* a parsed row of a county with '*' in its name that the table lists: no
\* record has its year, while other counties have records
C21_Witness ==
    /\ pc = "done"
    /\ \E i \in 1..Len(vf_cases_raw) :
          /\ HasStar(CanonicalOf(vf_cases_raw[i]))
          /\ CanonicalOf(vf_cases_raw[i]) \in TableCounties
          /\ ~ParseCases(vf_cases_raw[i].cases_raw).na
          /\ ~\E x \in vf_annual_data : x.year = vf_cases_raw[i].year
    /\ \E r, q \in vf_annual_data : r.county # q.county

---------------------------------------------------------------------------
(* What create_model_predictions leaves as it is *)

OtherColumns(df) == Columns(df) \ {"gam_predictions"}

\* C22: the step from the aggregated tables to the predicted table, with or
\* without the fallback, keeps the rows, their order, and every column other
\* than gam_predictions of the County Record table, and keeps the Annual and
\* the Statewide table.
C22_OnlyPredictionsChange ==
    [][pc = "aggregated" =>
          /\ final_county_data'.county = final_county_data.county
          /\ OtherColumns(final_county_data') = OtherColumns(final_county_data)
          /\ \A c \in OtherColumns(final_county_data) :
                final_county_data'.num[c] = final_county_data.num[c]
          /\ vf_annual_data' = vf_annual_data
          /\ vf_statewide_annual' = vf_statewide_annual]_vars

\* the forest has predicted a row whose covariate is still missing
C22_Witness ==
    /\ pc = "done"
    /\ fallback = "forest"
    /\ \E i \in LoadedRows :
          /\ final_county_data.num["rpl_themes"][i].na
          /\ ~GamColumn[i].na
    /\ vf_annual_data # {}

---------------------------------------------------------------------------
(* The county-rankings chart *)

\* C23: the bar chart shows min(20, N) counties; each of them has a vf_rate,
\* and it is at least the vf_rate of every county that is not shown.
C23_TopCountiesShown ==
    view.kind \in {"bar", "static html"} =>
        LET rate == final_county_data.num["vf_rate"]
            N == NRows(final_county_data)
            shown == { view.rows[k] : k \in 1..Len(view.rows) }
        IN  /\ Cardinality(shown) = IF N < 20 THEN N ELSE 20
            /\ \A s \in shown : ~rate[s].na
            /\ \A s \in shown : \A t \in (1..N) \ shown :
                  rate[t].na \/ (~rate[s].na /\ rate[t].v <= rate[s].v)

===========================================================================
